---- MODULE Spec2Model ----
(***************************************************************************)
(* Model of delete_customers.py: the progress ledger                       *)
(* (CustomerDeletionManager), the deletion engine (CustomerDeleter.run),   *)
(* the remote customer collection it pages through and deletes from, and   *)
(* the process life cycle (start, normal exit, error exit, kill).          *)
(***************************************************************************)
EXTENDS Integers, Sequences, FiniteSets, TLC

\* ---------------------------------------------------------------- bounds
MaxId == 3          \* customer ids are 1..MaxId
PageLimit == 2      \* ids per listing page (the "limit" query parameter)
MaxBatch == 2       \* batch_size is drawn from 1..MaxBatch
MaxRuns == 2        \* number of process starts of one campaign
MaxConcurrent == 1  \* max_concurrent is drawn from 1..MaxConcurrent
GapCap == 5         \* elapsed time is counted up to GapCap tenths of a second

Window == 300       \* the 30 s rate window, in tenths of a second
BatchDelay == 2     \* asyncio.sleep(0.2) between batches, in tenths

None == -1          \* Python's None for total_customers / no exit status

Ids == 1..MaxId
BatchSizes == 1..MaxBatch
Concurrencies == 1..MaxConcurrent
RateLimits == {150, 100}
GetStatuses == {200, 500}
DeleteStatuses == {204, 400, 429, 500}
Transient == {429, 500}
ClientErrors == {400}

VARIABLES
    remote,          \* ids present in the remote collection
    file,            \* state/processed_customers.json
    pc,              \* position of the process
    dry_run,         \* CustomerDeleter.dry_run
    batch_size,      \* CustomerDeleter.batch_size
    max_concurrent,  \* initial value of CustomerDeleter.semaphore
    sleep_time,      \* CustomerDeleter.sleep_time, in tenths of a second
    sem,             \* free slots of CustomerDeleter.semaphore
    in_flight,       \* requests sent and not yet answered
    elapsed,         \* least time since the last request was sent
    processed_ids,   \* CustomerDeletionManager.processed_ids
    total_customers, \* CustomerDeletionManager.total_customers
    page,            \* run(): page
    remaining_ids,   \* run(): remaining_ids
    i,               \* run(): offset of the current batch in remaining_ids
    exit_code,       \* exit status of the last ended process
    err,             \* exception that ended the last process
    \* ---- history of the campaign and of the current run
    runs,            \* processes started so far
    resumed,         \* the current process was started after a kill
    loaded_ids,      \* processed_ids as loaded when the run started
    start_remote,    \* remote collection when the run started
    batches,         \* batches handed to delete_customers in this run
    transmitted,     \* ids contained in a transmitted DELETE of this run
    resent,          \* ids contained in two transmitted DELETEs of this run
    dup_sent,        \* ids transmitted while they were in processed_ids
    failed_ids,      \* ids of batches answered 429 / 5xx in this run
    all_ok,          \* every DELETE of this run was answered 204
    last_status,     \* status of the last DELETE response of this run
    last_batch,      \* batch of the last transmitted DELETE of this run
    first_total,     \* first value total_customers was populated with
    offered,         \* last value passed to set_total_customers
    ever_processed,  \* every id that was ever in processed_ids
    confirmed,       \* ids of batches whose DELETE was answered 204
    any_dry,         \* some run of the campaign was a dry run
    skipped_ids,     \* ids of batches answered with a client error
    last_get,        \* status of the last GET response of this run
    empty_seen,      \* an empty page was returned in this run
    min_gap,         \* least time between two successive requests
    loaded_corrupt   \* the ledger file was unparseable at start

vars == <<remote, file, pc, dry_run, batch_size, processed_ids,
          total_customers, page, remaining_ids, i, exit_code, err, runs,
          resumed, loaded_ids, start_remote, batches, transmitted, resent,
          dup_sent, failed_ids, all_ok, last_status, last_batch,
          first_total, offered, ever_processed, max_concurrent, sleep_time,
          sem, in_flight, elapsed, confirmed, any_dry, skipped_ids,
          last_get, empty_seen, min_gap, loaded_corrupt>>

\* ------------------------------------------------------------ helpers
Range(s) == {s[k] : k \in 1..Len(s)}

Min(a, b) == IF a < b THEN a ELSE b

\* the remote collection in listing order (ascending id)
Listing(S) == SelectSeq([k \in 1..MaxId |-> k], LAMBDA x : x \in S)

\* GET /customers?page=p&limit=PageLimit
Page(S, p) ==
    SubSeq(Listing(S), (p - 1) * PageLimit + 1,
           Min(p * PageLimit, Cardinality(S)))

\* GET /customers?limit=1 -> meta.pagination.total
Total(S) == Cardinality(S)

AbsentFile == [kind |-> "absent", ids |-> {}, total |-> None]
CorruptFile == [kind |-> "corrupt", ids |-> {}, total |-> None]

save_state_skipped(ids, total) == file

\* _save_state run to completion
save_state(ids, total) == [kind |-> "ok", ids |-> ids, total |-> total]

\* __init__: self.state.get('processed_ids', set())
load_ids(f) == IF f.kind = "ok" THEN f.ids ELSE {}

\* __init__: self.state.get('total_customers', None)
load_total(f) == IF f.kind = "ok" THEN f.total ELSE None

set_total_customers_overwrite(cur, total) == total

\* set_total_customers: the value of total_customers after the call
set_total_customers(cur, total) == IF cur = None THEN total ELSE cur

process_customers_replace(processed, batch) == Range(batch)

\* process_customers: the value of processed_ids after the call
process_customers(processed, batch) == processed \cup Range(batch)

Remaining_unfiltered(customer_ids, processed) == customer_ids

\* run(): remaining_ids = [cid for cid in customer_ids if cid not in ...]
Remaining(customer_ids, processed) ==
    SelectSeq(customer_ids, LAMBDA c : c \notin processed)

\* run(): batch = remaining_ids[i:i + self.batch_size]   (i is 0-based)
Batch(rem, k, b) == SubSeq(rem, k + 1, Min(k + b, Len(rem)))

\* __init__: self.sleep_time = 30 / rate_limit
SleepTime(rate_limit) == Window \div rate_limit

fetch_ok_any(status) == TRUE

\* get_total_customers / get_customer_ids: response.status != 200 raises
fetch_ok(status) == status = 200

load_fails_never(f) == FALSE

\* _load_state: json.load raises on an empty or cut-short file
load_fails(f) == f.kind = "corrupt"

delete_ok_lenient(status) == status \in {204, 429}

delete_ok_below_500(status) == status < 500

delete_ok_always(status) == TRUE

\* delete_customers: the request's return value for a response status
delete_ok(status) == status = 204

Alive == {"init", "counting", "list", "listing", "batch", "deleting",
          "record"}
Ended == {"off", "done", "failed", "killed"}

CurBatch == Batch(remaining_ids, i, batch_size)

\* ------------------------------------------------------------ initial state
\* No process yet, no ledger file, any remote collection.
Init ==
    /\ remote \in SUBSET Ids
    /\ file = AbsentFile
    /\ pc = "off"
    /\ dry_run = FALSE
    /\ batch_size = 1
    /\ processed_ids = {}
    /\ total_customers = None
    /\ page = 1
    /\ remaining_ids = <<>>
    /\ i = 0
    /\ exit_code = None
    /\ err = "none"
    /\ runs = 0
    /\ resumed = FALSE
    /\ loaded_ids = {}
    /\ start_remote = {}
    /\ batches = <<>>
    /\ transmitted = {}
    /\ resent = {}
    /\ dup_sent = {}
    /\ failed_ids = {}
    /\ all_ok = TRUE
    /\ last_status = 0
    /\ last_batch = <<>>
    /\ first_total = None
    /\ offered = None
    /\ ever_processed = {}
    /\ max_concurrent = 1
    /\ sleep_time = SleepTime(150)
    /\ sem = 1
    /\ in_flight = 0
    /\ elapsed = GapCap
    /\ confirmed = {}
    /\ any_dry = FALSE
    /\ skipped_ids = {}
    /\ last_get = 0
    /\ empty_seen = FALSE
    /\ min_gap = GapCap
    /\ loaded_corrupt = FALSE

Campaign == <<first_total, offered, ever_processed>>
CampaignAudit == <<confirmed, any_dry>>
RunHistory == <<loaded_ids, start_remote, batches, transmitted, resent,
                dup_sent, failed_ids, all_ok, last_status, last_batch>>
RunAudit == <<skipped_ids, last_get, empty_seen, min_gap, loaded_corrupt>>
Config == <<dry_run, batch_size, max_concurrent, sleep_time, runs, resumed>>
Governor == <<sem, in_flight, elapsed>>
Loop == <<page, remaining_ids, i>>

\* asyncio.sleep(t): at least t more has passed since the last request
Sleep(t) == elapsed' = Min(GapCap, elapsed + t)

Acquire_skipped == sem' = sem

\* async with self.semaphore: wait for a free slot and take it
Acquire ==
    /\ sem > 0
    /\ sem' = sem - 1

\* a request goes out: the spacing to the one before it is noted
Sent ==
    /\ in_flight' = in_flight + 1
    /\ min_gap' = Min(min_gap, elapsed)
    /\ elapsed' = 0

\* the process ends with an exception caught by main(): sys.exit(1)
Fail(e) ==
    /\ pc' = "failed"
    /\ err' = e
    /\ exit_code' = 1

\* ------------------------------------------------------------ main()
\* main(): CustomerDeleter(...) -> CustomerDeletionManager() -> _load_state.
\* json.load raises on a file that is empty or cut short.
Start(d, b, m, r) ==
    /\ pc \in Ended
    /\ runs < MaxRuns
    /\ runs' = runs + 1
    /\ resumed' = (pc = "killed")
    /\ dry_run' = d
    /\ batch_size' = b
    /\ max_concurrent' = m
    /\ sleep_time' = SleepTime(r)
    /\ sem' = m
    /\ in_flight' = 0
    /\ elapsed' = GapCap
    /\ IF load_fails(file)
         THEN /\ Fail("CorruptState")
              /\ processed_ids' = {}
              /\ total_customers' = None
         ELSE /\ pc' = "init"
              /\ err' = "none"
              /\ exit_code' = None
              /\ processed_ids' = load_ids(file)
              /\ total_customers' = load_total(file)
    /\ page' = 1
    /\ remaining_ids' = <<>>
    /\ i' = 0
    /\ loaded_ids' = processed_ids'
    /\ start_remote' = remote
    /\ batches' = <<>>
    /\ transmitted' = {}
    /\ resent' = {}
    /\ dup_sent' = {}
    /\ failed_ids' = {}
    /\ all_ok' = TRUE
    /\ last_status' = 0
    /\ last_batch' = <<>>
    /\ skipped_ids' = {}
    /\ last_get' = 0
    /\ empty_seen' = FALSE
    /\ min_gap' = GapCap
    /\ loaded_corrupt' = (file.kind = "corrupt")
    /\ any_dry' = (any_dry \/ d)
    /\ UNCHANGED <<remote, file, Campaign, confirmed>>

\* get_total_customers: session.get is entered without the semaphore
SendCount ==
    /\ pc = "init"
    /\ total_customers = None
    /\ pc' = "counting"
    /\ Sent
    /\ UNCHANGED <<remote, file, processed_ids, total_customers, Loop,
                   exit_code, err, Config, sem, RunHistory, Campaign,
                   CampaignAudit, skipped_ids, last_get, empty_seen,
                   loaded_corrupt>>

\* run(): get_total_customers answered, then set_total_customers
CountTotal(s) ==
    /\ pc = "counting"
    /\ in_flight' = in_flight - 1
    /\ last_get' = s
    /\ IF fetch_ok(s)
         THEN /\ total_customers' =
                     set_total_customers(total_customers, Total(remote))
              /\ file' = save_state(processed_ids, total_customers')
              /\ offered' = Total(remote)
              /\ first_total' =
                     IF first_total = None THEN total_customers'
                     ELSE first_total
              /\ pc' = "list"
              /\ UNCHANGED <<exit_code, err>>
         ELSE /\ Fail("FetchError")
              /\ UNCHANGED <<total_customers, file, offered, first_total>>
    /\ UNCHANGED <<remote, processed_ids, Loop, Config, sem, elapsed,
                   RunHistory, ever_processed, CampaignAudit, skipped_ids,
                   empty_seen, min_gap, loaded_corrupt>>

\* run(): total_customers = self.state.total_customers
UseStoredTotal ==
    /\ pc = "init"
    /\ total_customers # None
    /\ pc' = "list"
    /\ UNCHANGED <<remote, file, processed_ids, total_customers, Loop,
                   exit_code, err, Config, Governor, RunHistory, RunAudit,
                   Campaign, CampaignAudit>>

\* run(): the state after the for loop over the batches of a page moved on
Advance(k) ==
    IF k < Len(remaining_ids)
      THEN /\ pc' = "batch"
           /\ i' = k
           /\ UNCHANGED <<page, remaining_ids>>
      ELSE /\ pc' = "list"
           /\ i' = 0
           /\ page' = page + 1
           /\ UNCHANGED remaining_ids

\* get_customer_ids: a semaphore slot is taken, then session.get is entered
SendList ==
    /\ pc = "list"
    /\ Acquire
    /\ pc' = "listing"
    /\ Sent
    /\ UNCHANGED <<remote, file, processed_ids, total_customers, Loop,
                   exit_code, err, Config, RunHistory, Campaign,
                   CampaignAudit, skipped_ids, last_get, empty_seen,
                   loaded_corrupt>>

\* run(): get_customer_ids answered; empty page -> final report and return
ListPage(s) ==
    /\ pc = "listing"
    /\ in_flight' = in_flight - 1
    /\ sem' = sem + 1
    /\ last_get' = s
    /\ IF ~fetch_ok(s)
         THEN /\ Fail("FetchError")
              /\ UNCHANGED <<Loop, elapsed, empty_seen>>
         ELSE LET customer_ids == Page(remote, page)
                  rem == Remaining(customer_ids, processed_ids)
              IN  /\ Sleep(sleep_time)
                  /\ empty_seen' = (customer_ids = <<>>)
                  /\ IF customer_ids = <<>>
                       THEN /\ IF total_customers = 0
                                 THEN Fail("ZeroDivisionError")
                                 ELSE /\ pc' = "done"
                                      /\ exit_code' = 0
                                      /\ UNCHANGED err
                            /\ UNCHANGED Loop
                       ELSE /\ remaining_ids' = rem
                            /\ i' = 0
                            /\ IF rem = <<>>
                                 THEN /\ pc' = "list"
                                      /\ page' = page + 1
                                 ELSE /\ pc' = "batch"
                                      /\ UNCHANGED page
                            /\ UNCHANGED <<exit_code, err>>
    /\ UNCHANGED <<remote, file, processed_ids, total_customers, Config,
                   RunHistory, Campaign, CampaignAudit, skipped_ids,
                   min_gap, loaded_corrupt>>

\* process_customers(batch), _save_state, the progress line, the 0.2 s
\* sleep, next batch
Record(batch) ==
    /\ processed_ids' = process_customers(processed_ids, batch)
    /\ file' = save_state(processed_ids', total_customers)
    /\ ever_processed' = ever_processed \cup processed_ids'
    /\ IF total_customers = 0
         THEN /\ Fail("ZeroDivisionError")
              /\ UNCHANGED <<Loop, elapsed>>
         ELSE /\ Advance(i + batch_size)
              /\ Sleep(BatchDelay)
              /\ UNCHANGED <<exit_code, err>>

\* delete_customers(batch): a semaphore slot is taken, then session.delete
\* is entered with the ids of the batch
SendDelete ==
    /\ pc = "batch"
    /\ ~dry_run
    /\ Acquire
    /\ pc' = "deleting"
    /\ Sent
    /\ batches' = Append(batches, CurBatch)
    /\ transmitted' = transmitted \cup Range(CurBatch)
    /\ resent' = resent \cup (transmitted \cap Range(CurBatch))
    /\ dup_sent' = dup_sent \cup (processed_ids \cap Range(CurBatch))
    /\ last_batch' = CurBatch
    /\ UNCHANGED <<remote, file, processed_ids, total_customers, Loop,
                   exit_code, err, Config, loaded_ids, start_remote,
                   failed_ids, all_ok, last_status, Campaign, CampaignAudit,
                   skipped_ids, last_get, empty_seen, loaded_corrupt>>

\* delete_customers(batch): the request is answered
DeleteBatch(s) ==
    /\ pc = "deleting"
    /\ in_flight' = in_flight - 1
    /\ sem' = sem + 1
    /\ last_status' = s
    /\ all_ok' = (all_ok /\ s = 204)
    /\ failed_ids' = IF s \in Transient
                       THEN failed_ids \cup Range(CurBatch)
                       ELSE failed_ids
    /\ skipped_ids' = IF s \in ClientErrors
                        THEN skipped_ids \cup Range(CurBatch)
                        ELSE skipped_ids
    /\ confirmed' = IF s = 204 THEN confirmed \cup Range(CurBatch)
                    ELSE confirmed
    /\ remote' = IF s = 204 THEN remote \ Range(CurBatch) ELSE remote
    /\ IF delete_ok(s)
         THEN /\ pc' = "record"
              /\ Sleep(sleep_time)
              /\ UNCHANGED Loop
         ELSE /\ Advance(i + batch_size)
              /\ Sleep(BatchDelay)
    /\ UNCHANGED <<file, processed_ids, total_customers, exit_code, err,
                   Config, loaded_ids, start_remote, batches, transmitted,
                   resent, dup_sent, last_batch, Campaign, any_dry, last_get,
                   empty_seen, min_gap, loaded_corrupt>>

\* run(): after delete_customers returned True for a transmitted request
RecordBatch ==
    /\ pc = "record"
    /\ Record(CurBatch)
    /\ UNCHANGED <<remote, total_customers, Config, sem, in_flight,
                   RunHistory, RunAudit, first_total, offered,
                   CampaignAudit>>

\* run(): delete_customers(batch) in dry-run mode returns True at once
DryRunBatch ==
    /\ pc = "batch"
    /\ dry_run
    /\ batches' = Append(batches, CurBatch)
    /\ Record(CurBatch)
    /\ UNCHANGED <<remote, total_customers, Config, sem, in_flight,
                   loaded_ids, start_remote, transmitted, resent, dup_sent,
                   failed_ids, all_ok, last_status, last_batch, RunAudit,
                   first_total, offered, CampaignAudit>>

\* a request raises (connection error, timeout): nothing catches it in run()
TransportError ==
    /\ pc \in {"counting", "listing", "deleting"}
    /\ Fail("TransportError")
    /\ in_flight' = in_flight - 1
    /\ sem' = IF pc = "counting" THEN sem ELSE sem + 1
    /\ UNCHANGED <<remote, file, processed_ids, total_customers, Loop,
                   Config, elapsed, RunHistory, RunAudit, Campaign,
                   CampaignAudit>>

\* the process is killed at a point where no save is under way
Kill ==
    /\ pc \in Alive
    /\ pc' = "killed"
    /\ in_flight' = 0
    /\ UNCHANGED <<remote, file, processed_ids, total_customers, Loop,
                   exit_code, err, Config, sem, elapsed, RunHistory,
                   RunAudit, Campaign, CampaignAudit>>

\* the process is killed inside _save_state, after open(state_file, 'w')
\* truncated the file and before the dump reached the disk
KillInSave ==
    /\ \/ pc = "counting"
       \/ pc = "record"
       \/ pc = "batch" /\ dry_run
    /\ pc' = "killed"
    /\ in_flight' = 0
    /\ file' = CorruptFile
    /\ UNCHANGED <<remote, processed_ids, total_customers, Loop, exit_code,
                   err, Config, sem, elapsed, RunHistory, RunAudit, Campaign,
                   CampaignAudit>>

Next ==
    \/ \E d \in BOOLEAN, b \in BatchSizes, m \in Concurrencies,
          r \in RateLimits : Start(d, b, m, r)
    \/ SendCount
    \/ \E s \in GetStatuses : CountTotal(s)
    \/ UseStoredTotal
    \/ SendList
    \/ \E s \in GetStatuses : ListPage(s)
    \/ SendDelete
    \/ \E s \in DeleteStatuses : DeleteBatch(s)
    \/ RecordBatch
    \/ DryRunBatch
    \/ TransportError
    \/ Kill
    \/ KillInSave

Spec == Init /\ [][Next]_vars

\* ------------------------------------------------------------ ledger API
\* The ledger object driven directly: any caller, any argument.
LedgerInit ==
    /\ Init
    /\ remote = {}

\* CustomerDeletionManager(): a new instance reads the file
LedgerNew ==
    /\ pc \in Ended
    /\ ~load_fails(file)
    /\ runs < MaxRuns
    /\ runs' = runs + 1
    /\ pc' = "init"
    /\ processed_ids' = load_ids(file)
    /\ total_customers' = load_total(file)
    /\ loaded_ids' = processed_ids'
    /\ UNCHANGED <<remote, file, dry_run, batch_size, max_concurrent,
                   sleep_time, Governor, Loop, exit_code, err, resumed,
                   start_remote, batches, transmitted, resent, dup_sent,
                   failed_ids, all_ok, last_status, last_batch, RunAudit,
                   Campaign, CampaignAudit>>

\* the instance is dropped (its process ended)
LedgerDrop ==
    /\ pc = "init"
    /\ pc' = "off"
    /\ UNCHANGED <<remote, file, processed_ids, total_customers, Loop,
                   exit_code, err, Config, Governor, RunHistory, RunAudit,
                   Campaign, CampaignAudit>>

\* set_total_customers(total)
LedgerSetTotal(total) ==
    /\ pc = "init"
    /\ total_customers' = set_total_customers(total_customers, total)
    /\ file' = IF total_customers = None
                 THEN save_state(processed_ids, total_customers')
                 ELSE file
    /\ offered' = total
    /\ first_total' = IF first_total = None THEN total ELSE first_total
    /\ UNCHANGED <<remote, pc, processed_ids, Loop, exit_code, err, Config,
                   Governor, RunHistory, RunAudit, ever_processed,
                   CampaignAudit>>

\* process_customers(customer_ids)
LedgerProcess(customer_ids) ==
    /\ pc = "init"
    /\ processed_ids' = process_customers(processed_ids, customer_ids)
    /\ file' = save_state(processed_ids', total_customers)
    /\ ever_processed' = ever_processed \cup processed_ids'
    /\ UNCHANGED <<remote, pc, total_customers, Loop, exit_code, err,
                   Config, Governor, RunHistory, RunAudit, first_total,
                   offered, CampaignAudit>>

LedgerNext ==
    \/ LedgerNew
    \/ LedgerDrop
    \/ \E total \in 0..MaxId : LedgerSetTotal(total)
    \/ \E a \in Ids, b \in Ids : LedgerProcess(<<a, b>>)

SpecLedger == LedgerInit /\ [][LedgerNext]_vars

\* ------------------------------------------------------------ claims

\* C1: no delete request ever contains an id that is in processed_ids when
\* the request is built; in particular no delete request of a run contains
\* an id that was in processed_ids when that run loaded the ledger.
C1_NoDuplicateDelete ==
    /\ dup_sent = {}
    /\ transmitted \cap loaded_ids = {}

\* C1 witness: a later run that loaded a ledger holding an id the remote
\* still lists has transmitted a delete request.
C1_Witness ==
    /\ runs >= 2
    /\ loaded_ids \cap start_remote # {}
    /\ transmitted # {}

\* C2 (as claimed): a run restarted after a kill loads the ledger and sends
\* no delete request for an id recorded before the kill.
C2_ResumeAfterKill ==
    resumed => /\ err # "CorruptState"
               /\ transmitted \cap loaded_ids = {}

\* C3 (as claimed): a dry run transmits no delete request and leaves
\* processed_ids, in memory and in the file, as it was loaded.
C3_DryRunFrame ==
    (dry_run /\ pc \in Alive \cup {"done"}) =>
        /\ transmitted = {}
        /\ processed_ids = loaded_ids
        /\ load_ids(file) = loaded_ids

\* a step of the current run that transmits a delete request
Transmits == runs' = runs /\ ~dry_run /\ Len(batches') = Len(batches) + 1

C5_CompleteDrain ==
    (pc = "done" /\ ~dry_run /\ loaded_ids = {} /\ all_ok) =>
        /\ start_remote \subseteq processed_ids
        /\ remote = {}
        /\ Cardinality(processed_ids) = total_customers

CeilDiv(n, b) == (n + b - 1) \div b

\* C6 (as claimed): the batches submitted in a completed run number
\* ceil(N/B), each has at most B ids, they are pairwise disjoint and their
\* union is the set of undeleted ids the run started with.
C6_BatchPartition ==
    pc = "done" =>
        LET U == start_remote \ loaded_ids
        IN  /\ Len(batches) = CeilDiv(Cardinality(U), batch_size)
            /\ \A k \in 1..Len(batches) : Len(batches[k]) <= batch_size
            /\ \A k \in 1..Len(batches) : \A m \in 1..Len(batches) :
                   k # m => Range(batches[k]) \cap Range(batches[m]) = {}
            /\ UNION {Range(batches[k]) : k \in 1..Len(batches)} = U

\* C7: once total_customers is populated, every value of it that is held
\* in memory or stored in the ledger file is the first value, whatever
\* set_total_customers is called with later and across new instances.
C7_FirstWriterWins ==
    /\ (total_customers # None => total_customers = first_total)
    /\ (load_total(file) # None => load_total(file) = first_total)
    /\ (first_total # None /\ pc = "init" => total_customers = first_total)

\* C7 witness: set_total_customers was called with a value other than the
\* first one, and memory and file still hold the first one.
C7_Witness ==
    /\ offered # None
    /\ first_total # None
    /\ offered # first_total
    /\ total_customers = first_total
    /\ load_total(file) = first_total

C9_AtomicSave == file.kind # "corrupt"

\* C10 (as claimed): a run that reaches its end exits 0; a run exits
\* non-zero only when loading the ledger or a request failed.
C10_ExitStatus ==
    /\ (pc = "done" => exit_code = 0)
    /\ (pc = "failed" =>
            /\ exit_code # 0
            /\ err \in {"CorruptState", "FetchError", "TransportError"})

\* C11 (as claimed): a delete request that is in flight never ends the run
\* with a failure; the run stays in the batch loop.
C11_DeleteFailureContained ==
    [][pc = "deleting" => pc' # "failed"]_vars

\* C12: once a count or listing request was answered with a status other
\* than 200 the run has ended with a fatal error and exit code 1, no request
\* is in flight or sent after it, and the ledger file is readable and holds
\* every id recorded so far.
C12_FetchErrorAborts ==
    last_get \notin {0, 200} =>
        /\ pc = "failed"
        /\ err = "FetchError"
        /\ exit_code = 1
        /\ in_flight = 0
        /\ file.kind # "corrupt"
        /\ processed_ids \subseteq load_ids(file)
        /\ ever_processed \subseteq load_ids(file)

\* C12 witness: a listing request failed after the run had transmitted a
\* delete request and recorded its batch.
C12_Witness ==
    /\ last_get = 500
    /\ pc = "failed"
    /\ transmitted # {}
    /\ processed_ids # loaded_ids

\* C13 (as claimed): no delete request is transmitted in a run before a
\* listing request of that run has returned an empty page.
C13_EnumerateFirst == transmitted # {} => empty_seen

\* the step in which a delete request is answered
Answered == pc = "deleting" /\ pc' \notin {"failed", "killed"}

\* C14: when a delete request is answered with a client error the run goes
\* on with the next batch (or the next page), processed_ids and the ledger
\* file are left as they were, and from then on in the run the ids of that
\* batch are neither transmitted again nor recorded.
C14_ClientErrorSkips ==
    [][/\ (Answered /\ last_status' \in ClientErrors) =>
              /\ processed_ids' = processed_ids
              /\ file' = file
              /\ Range(CurBatch) \subseteq skipped_ids'
              /\ \/ pc' = "batch" /\ i' = i + batch_size /\ page' = page
                 \/ pc' = "list" /\ page' = page + 1
       /\ skipped_ids' \cap processed_ids' = {}
       /\ skipped_ids' \cap load_ids(file') = {}
       /\ skipped_ids' \cap resent' = {}
       /\ (pc' = "deleting" /\ pc = "batch")
              => Range(last_batch') \cap skipped_ids = {}]_vars

\* C14 witness: after a batch was answered with a client error a later
\* batch was transmitted, answered 204, and the run completed.
C14_Witness ==
    /\ skipped_ids # {}
    /\ last_status = 204
    /\ pc = "done"

\* ids confirmed with 204 that the ledger file does not hold
Unrecorded == confirmed \ load_ids(file)

Held == max_concurrent - sem

C17_MinSpacing == min_gap >= sleep_time

\* C18: when the ledger file is unparseable at start the process fails at
\* once with exit code 1: no request was sent, nothing was processed and the
\* file is left as it was.
C18_CorruptStateFatal ==
    loaded_corrupt =>
        /\ pc = "failed"
        /\ err = "CorruptState"
        /\ exit_code = 1
        /\ file = CorruptFile
        /\ in_flight = 0
        /\ last_get = 0
        /\ batches = <<>>
        /\ transmitted = {}
        /\ min_gap = GapCap

\* C18 witness: a process started on a file cut short by a kill has failed.
C18_Witness ==
    /\ loaded_corrupt
    /\ resumed
    /\ pc = "failed"

\* C19: in a campaign without dry runs every id in processed_ids, in memory
\* and in the ledger file, belongs to a batch whose delete request was
\* answered 204.
C19_LedgerSound ==
    ~any_dry =>
        /\ processed_ids \subseteq confirmed
        /\ load_ids(file) \subseteq confirmed
        /\ ever_processed \subseteq confirmed

\* C19 witness: a real-mode run completed with one batch recorded and
\* another batch answered 429 or 5xx.
C19_Witness ==
    /\ ~any_dry
    /\ pc = "done"
    /\ processed_ids # {}
    /\ failed_ids # {}

\* ------------------------------------------------------------ termination
\* Runs in which every count and listing request is answered 200 and the
\* process is not killed; delete requests have any outcome.
RunStep ==
    \/ SendCount
    \/ CountTotal(200)
    \/ UseStoredTotal
    \/ SendList
    \/ ListPage(200)
    \/ SendDelete
    \/ \E s \in DeleteStatuses : DeleteBatch(s)
    \/ pc = "deleting" /\ TransportError
    \/ RecordBatch
    \/ DryRunBatch

NextTerm ==
    \/ \E d \in BOOLEAN, b \in BatchSizes, m \in Concurrencies,
          r \in RateLimits : Start(d, b, m, r)
    \/ RunStep

\* asyncio.run keeps running the coroutine: a started run takes every step
\* it can take.  Nothing obliges anyone to start another process.
SpecTerm == Init /\ [][NextTerm]_vars /\ WF_vars(RunStep)

\* C20 (as claimed): every run whose listing requests succeed reaches the
\* final report, whatever the outcomes of its delete requests.
C20_Terminates == [](pc \in Alive => <>(pc = "done"))
====
